---- MODULE Spec2Model ----
(***************************************************************************)
(* Business Analyst Job Market Dashboard (src/app.py).                     *)
(*                                                                         *)
(* The program is a Streamlit script.  One run of the script executes      *)
(* app.py top to bottom: load_data() (cached by st.cache_data), the three  *)
(* sidebar multiselects, the filter, the four KPIs and the charts.  A      *)
(* change of a widget's selection reruns the script from the top.          *)
(*                                                                         *)
(* Conventions of the model                                                *)
(*   - a string that the code processes character by character             *)
(*     (company_name, salary_estimate) is a sequence of one-character      *)
(*     strings; a categorical string (location, ...) is a TLA+ string;     *)
(*   - a cell of a table is NaN (the empty tuple) or Val(v) (the           *)
(*     one-element tuple holding v);                                       *)
(*   - a float that is a mean of integers is the exact reduced fraction    *)
(*     [num, den]; ratings are counted in tenths;                          *)
(*   - the columns of a file are named as line 21 leaves them (stripped    *)
(*     and in lower case).                                                 *)
(***************************************************************************)
EXTENDS Integers, Sequences, FiniteSets, TLC

VARIABLES
    csv,          \* the source file: [readable, columns, rows], never written
    tieRule,      \* how this build's sort orders equal counts in value_counts
    cache,        \* st.cache_data's store for load_data: NaN or Val(table)
    reads,        \* number of executions of load_data's body (pd.read_csv)
    pc,           \* position of the running script
    error,        \* "none", or the exception that stopped the run
    df,           \* module-level df of this run (line 44): NaN or Val(table)
    location,     \* selection of the Location multiselect
    industry,     \* selection of the Industry multiselect
    ownership,    \* selection of the Ownership Type multiselect
    filtered_df,  \* line 64-73
    kpi,          \* the four st.metric values, line 78-81
    loc_df,       \* line 86
    comp_df,      \* line 101
    title_df,     \* line 116
    salary_df,    \* line 150
    easy_df,      \* line 164
    rendered,     \* the elements handed to Streamlit in this run
    cacheHit,     \* whether this run's load_data() call was served from the cache
    input,        \* argument of a function applied on its own
    output        \* its result

vars == <<csv, tieRule, cache, reads, pc, error, df, location, industry,
          ownership, filtered_df, kpi, loc_df, comp_df, title_df, salary_df,
          easy_df, rendered, cacheHit, input, output>>

pipelineVars == <<csv, tieRule, cache, reads, error, df, location, industry,
                  ownership, filtered_df, kpi, loc_df, comp_df, title_df,
                  salary_df, easy_df, rendered, cacheHit>>

(***************************************************************************)
(* Cells                                                                   *)
(***************************************************************************)
NaN == <<>>

Val(v) == <<v>>

isna(c) == c = NaN

Get(c) == c[1]

(***************************************************************************)
(* Bounds                                                                  *)
(***************************************************************************)
MaxSalaryLen == 4

MaxNameLen == 5

MaxRows == 2

\* Files with more labels than a top-N table holds: the number of labels
\* and the number of labels that occur twice.
NumLabels == 12

MaxTwice == 1

(***************************************************************************)
(* Arithmetic helpers                                                      *)
(***************************************************************************)
RECURSIVE Gcd(_, _)
Gcd(a, b) == IF b = 0 THEN a ELSE Gcd(b, a % b)

\* The exact value sum/n as a reduced fraction (n > 0, sum >= 0).
Frac(sum, n) ==
    LET g == Gcd(sum, n)
    IN  [num |-> sum \div g, den |-> n \div g]

RECURSIVE SumSeq(_)
SumSeq(s) == IF s = <<>> THEN 0 ELSE Head(s) + SumSeq(Tail(s))

\* All sequences over S of length at most n.
SeqsUpTo(S, n) == UNION {[1..k -> S] : k \in 0..n}

(***************************************************************************)
(* parse_salary, line 33-38                                                *)
(***************************************************************************)
Digits == {"0", "1", "2", "3", "4", "5", "6", "7", "8", "9"}

DigitVal(c) ==
    CASE c = "0" -> 0 [] c = "1" -> 1 [] c = "2" -> 2 [] c = "3" -> 3
      [] c = "4" -> 4 [] c = "5" -> 5 [] c = "6" -> 6 [] c = "7" -> 7
      [] c = "8" -> 8 [] c = "9" -> 9

\* The match of \d, one digit, that starts at position i.
MatchOneDigitEnd(s, i) == i

\* The end of the match of \d+ that starts at position i (s[i] is a digit):
\* the quantifier is greedy, so the match runs on while digits follow.
RECURSIVE MatchDigitsEnd(_, _)
MatchDigitsEnd(s, i) ==
    IF i < Len(s) /\ s[i + 1] \in Digits THEN MatchDigitsEnd(s, i + 1) ELSE i

\* re.findall(r"\d+", s): scan from the left; at a digit take the match and
\* go on after it, otherwise move one character on.
RECURSIVE FindAllFrom(_, _)
FindAllFrom(s, i) ==
    IF i > Len(s) THEN <<>>
    ELSE IF s[i] \in Digits
         THEN LET e == MatchDigitsEnd(s, i)
              IN  <<SubSeq(s, i, e)>> \o FindAllFrom(s, e + 1)
         ELSE FindAllFrom(s, i + 1)

findall_digits(s) == FindAllFrom(s, 1)

\* int(n) of a digit string, left to right.
RECURSIVE IntFrom(_, _)
IntFrom(n, acc) ==
    IF n = <<>> THEN acc ELSE IntFrom(Tail(n), 10 * acc + DigitVal(Head(n)))

int(n) == IntFrom(n, 0)

\* np.mean of a non-empty list of ints.
np_mean(nums) == Frac(SumSeq(nums), Len(nums))

parse_salary(s) ==
    IF isna(s) THEN NaN
    ELSE LET found == findall_digits(Get(s))
             nums == [k \in 1..Len(found) |-> int(found[k])]
         IN  IF nums /= <<>> THEN Val(np_mean(nums)) ELSE NaN

(***************************************************************************)
(* Company name cleaning, line 24:                                         *)
(*   df["company_name"].str.replace(r"\n.*", "", regex=True)               *)
(***************************************************************************)
LF == "\n"

\* The end of the match of \n.* that starts at position i (s[i] is LF):
\* "." matches every character but LF, so the match stops before the next LF.
RECURSIVE MatchLineEnd(_, _)
MatchLineEnd(s, i) ==
    IF i < Len(s) /\ s[i + 1] /= LF THEN MatchLineEnd(s, i + 1) ELSE i

\* re.sub with count 0: every match, left to right, is replaced by "".
RECURSIVE SubFrom(_, _)
SubFrom(s, i) ==
    IF i > Len(s) THEN <<>>
    ELSE IF s[i] = LF
         THEN SubFrom(s, MatchLineEnd(s, i) + 1)
         ELSE <<s[i]>> \o SubFrom(s, i + 1)

\* The same with count 1: only the first match is replaced.
RECURSIVE SubFirstFrom(_, _)
SubFirstFrom(s, i) ==
    IF i > Len(s) THEN <<>>
    ELSE IF s[i] = LF
         THEN SubSeq(s, MatchLineEnd(s, i) + 1, Len(s))
         ELSE <<s[i]>> \o SubFirstFrom(s, i + 1)

str_replace_first(c) == IF isna(c) THEN NaN ELSE Val(SubFirstFrom(Get(c), 1))

\* Series.str.replace leaves a missing value missing.
str_replace(c) == IF isna(c) THEN NaN ELSE Val(SubFrom(Get(c), 1))

(***************************************************************************)
(* The source file, line 18                                                *)
(***************************************************************************)
AllColumns ==
    {"job_title", "company_name", "location", "industry", "sector",
     "type_of_ownership", "founded", "easy_apply", "salary_estimate", "rating"}

Str(s) == Val(s)

\* A line of the file.  easy_apply is still the text of the cell.
CsvRow(loc, ind, sec, own, comp, title, sal, rat, fnd, easy) ==
    [location |-> loc, industry |-> ind, sector |-> sec,
     type_of_ownership |-> own, company_name |-> comp, job_title |-> title,
     salary_estimate |-> sal, rating |-> rat, founded |-> fnd,
     easy_apply |-> easy]

\* Python values of the easy_apply column.
PyBool(b) == [t |-> "bool", b |-> b, i |-> 0, s |-> ""]

PyInt(i) == [t |-> "int", b |-> FALSE, i |-> i, s |-> ""]

PyStr(s) == [t |-> "str", b |-> FALSE, i |-> 0, s |-> s]

\* Python's ==: a bool is the number 0 or 1, a str equals only a str.
py_eq(x, y) ==
    LET num(v) == IF v.t = "bool" THEN (IF v.b THEN 1 ELSE 0) ELSE v.i
    IN  IF x.t = "str" \/ y.t = "str"
        THEN x.t = y.t /\ x.s = y.s
        ELSE num(x) = num(y)

BoolText == {"True", "False"}

IntText == {"-1", "0", "1"}

IntOfText(txt) == CASE txt = "-1" -> -1 [] txt = "0" -> 0 [] txt = "1" -> 1

\* pd.read_csv infers one dtype per column: bool when every cell is True or
\* False, int64 when every cell is an integer, otherwise the cells stay text.
infer_cell(cells, txt) ==
    IF cells \subseteq BoolText THEN PyBool(txt = "True")
    ELSE IF cells \subseteq IntText THEN PyInt(IntOfText(txt))
    ELSE PyStr(txt)

read_csv(file) ==
    LET cells == {Get(file.rows[k].easy_apply) : k \in 1..Len(file.rows)}
    IN  [columns |-> file.columns,
         rows |-> [k \in 1..Len(file.rows) |->
                    IF "easy_apply" \in file.columns
                    THEN [file.rows[k] EXCEPT
                            !.easy_apply = Val(infer_cell(cells, Get(@)))]
                    ELSE file.rows[k]]]

(***************************************************************************)
(* load_data, line 16-42                                                   *)
(***************************************************************************)
\* Series.replace(-1, np.nan), line 27
replace_founded(c) == IF ~isna(c) /\ Get(c) = -1 THEN NaN ELSE c

\* Series.replace(-1, False), line 30: only a value equal to -1 is replaced.
replace_easy_apply(c) ==
    IF ~isna(c) /\ py_eq(Get(c), PyInt(-1)) THEN Val(PyBool(FALSE)) ELSE c

clean_row(r) ==
    [location |-> r.location, industry |-> r.industry, sector |-> r.sector,
     type_of_ownership |-> r.type_of_ownership, job_title |-> r.job_title,
     rating |-> r.rating, salary_estimate |-> r.salary_estimate,
     company_name |-> str_replace(r.company_name),
     founded |-> replace_founded(r.founded),
     easy_apply |-> replace_easy_apply(r.easy_apply),
     avg_salary_k |-> parse_salary(r.salary_estimate)]

\* The columns load_data reads by name, in the order of lines 24, 27, 30, 40.
LoadNeedsNoFounded == {"company_name", "easy_apply", "salary_estimate"}

LoadNeeds == {"company_name", "founded", "easy_apply", "salary_estimate"}

\* The body of load_data: the exception it raises, or the table it returns.
load_data(file) ==
    IF ~file.readable THEN [exc |-> "FileNotFoundError", value |-> NaN]
    ELSE IF ~(LoadNeeds \subseteq file.columns)
         THEN [exc |-> "KeyError", value |-> NaN]
         ELSE LET t == read_csv(file)
              IN  [exc |-> "none",
                   value |-> Val([columns |-> t.columns \cup {"avg_salary_k"},
                                  rows |-> [k \in 1..Len(t.rows) |->
                                              clean_row(t.rows[k])]])]

\* st.cache_data keeps the value a call returned; a call that raised is not
\* cached.
cache_store_nothing(r) == NaN

cache_store(r) == r.value

(***************************************************************************)
(* Filter, line 64-73                                                      *)
(***************************************************************************)
\* Series.isin: a missing value is in no selection.
isin(c, sel) == ~isna(c) /\ Get(c) \in sel

\* sorted(df[col].dropna().unique()): the options of a multiselect.
options(t, col) ==
    {Get(t.rows[k][col]) : k \in {j \in 1..Len(t.rows) : ~isna(t.rows[j][col])}}

filter_rows_or(t, loc, ind, own) ==
    [t EXCEPT !.rows = SelectSeq(@, LAMBDA r :
        \/ loc = {} /\ ind = {} /\ own = {}
        \/ loc /= {} /\ isin(r.location, loc)
        \/ ind /= {} /\ isin(r.industry, ind)
        \/ own /= {} /\ isin(r.type_of_ownership, own))]

filter_rows(t, loc, ind, own) ==
    LET f0 == t.rows
        f1 == IF loc /= {}
              THEN SelectSeq(f0, LAMBDA r : isin(r.location, loc)) ELSE f0
        f2 == IF ind /= {}
              THEN SelectSeq(f1, LAMBDA r : isin(r.industry, ind)) ELSE f1
        f3 == IF own /= {}
              THEN SelectSeq(f2, LAMBDA r : isin(r.type_of_ownership, own))
              ELSE f2
    IN  [t EXCEPT !.rows = f3]

\* The names df and filtered_df after lines 64-73.
filter_step_in_place(d, loc, ind, own) ==
    [df |-> Val(filter_rows(Get(d), loc, ind, own)),
     filtered_df |-> Val(filter_rows(Get(d), loc, ind, own))]

filter_step(d, loc, ind, own) ==
    [df |-> d, filtered_df |-> Val(filter_rows(Get(d), loc, ind, own))]

(***************************************************************************)
(* Aggregations                                                            *)
(***************************************************************************)
Column(t, col) == [k \in 1..Len(t.rows) |-> t.rows[k][col]]

Range(s) == {s[k] : k \in 1..Len(s)}

\* The distinct values of a sequence in the order of their first occurrence.
RECURSIVE FirstSeen(_)
FirstSeen(s) ==
    IF s = <<>> THEN <<>>
    ELSE LET front == FirstSeen(SubSeq(s, 1, Len(s) - 1))
             last == s[Len(s)]
         IN  IF last \in Range(front) THEN front ELSE Append(front, last)

NumberOf(s, v) == Cardinality({k \in 1..Len(s) : s[k] = v})

\* How a build's sort may order two labels of equal count: pandas documents
\* only "descending order" of the counts.  A stable sort keeps the order of
\* first occurrence, the reversal of an ascending sort gives the opposite.
TieRules == {"first_seen", "last_seen"}

\* The order of value_counts between the labels at places a and b of the
\* order of first occurrence, with counts ca and cb: count descending, equal
\* counts by `rule`.
CountsBeforeAscending(ca, cb, a, b, rule) ==
    \/ ca < cb
    \/ /\ ca = cb
       /\ IF rule = "first_seen" THEN a < b ELSE a > b

CountsBefore(ca, cb, a, b, rule) ==
    \/ ca > cb
    \/ /\ ca = cb
       /\ IF rule = "first_seen" THEN a < b ELSE a > b

\* Series.value_counts(): missing values are dropped, one (label, count) pair
\* per distinct value, sorted by count.
value_counts(cells, rule) ==
    LET present == SelectSeq(cells, LAMBDA c : ~isna(c))
        keys == FirstSeen(present)
        n == Len(keys)
        cnt == [j \in 1..n |-> NumberOf(present, keys[j])]
        place == [j \in 1..n |->
                    Cardinality({a \in 1..n :
                        CountsBefore(cnt[a], cnt[j], a, j, rule)}) + 1]
    IN  [r \in 1..n |->
           LET j == CHOOSE j \in 1..n : place[j] = r
           IN  [label |-> Get(keys[j]), count |-> cnt[j]]]

TopN == 10

\* .head(n)
head(s, n) == SubSeq(s, 1, IF Len(s) < n THEN Len(s) ELSE n)

\* Series.nunique(): the number of distinct values, missing ones not counted.
nunique(cells) == Cardinality({c \in Range(cells) : ~isna(c)})

\* Series.mean(): the mean of the values that are present, NaN when there
\* is none.
series_mean_zero(cells) ==
    LET present == SelectSeq(cells, LAMBDA c : ~isna(c))
    IN  IF present = <<>> THEN Val(Frac(0, 1))
        ELSE Val(Frac(SumSeq([k \in 1..Len(present) |-> Get(present[k])]),
                      Len(present)))

series_mean(cells) ==
    LET present == SelectSeq(cells, LAMBDA c : ~isna(c))
    IN  IF present = <<>> THEN NaN
        ELSE Val(Frac(SumSeq([k \in 1..Len(present) |-> Get(present[k])]),
                      Len(present)))

\* round(x, 2) of a mean of ratings: x is a fraction of tenths, the result
\* is in hundredths, a half going to the even neighbour; round(nan, 2) is nan.
round2(m) ==
    IF isna(m) THEN NaN
    ELSE LET n == 10 * Get(m).num
             d == Get(m).den
             q == n \div d
             r == n % d
         IN  Val(IF 2 * r > d \/ (2 * r = d /\ q % 2 = 1) THEN q + 1 ELSE q)

\* DataFrame.dropna(): a row is dropped when any of its cells is missing.
dropna_any(rows) ==
    SelectSeq(rows, LAMBDA r : \A f \in DOMAIN r : ~isna(r[f]))

\* DataFrame.dropna(subset=["avg_salary_k"]), line 150
dropna_avg_salary_k(rows) == SelectSeq(rows, LAMBDA r : ~isna(r.avg_salary_k))

(***************************************************************************)
(* Source files of the bounded model                                       *)
(***************************************************************************)
RowPool ==
    { CsvRow(Str("NY"), Str("IT"), Str("Tech"), Str("Private"),
             Val(<<"A", LF, "4", ".", "0">>), Str("Analyst"),
             Val(<<"$", "5", "0", "K", "-", "$", "7", "0", "K">>),
             Val(40), Val(1999), Val("-1")),
      CsvRow(Str("NY"), Str("Finance"), Str("Banking"), Str("Public"),
             Val(<<"B">>), Str("Analyst"),
             Val(<<"$", "9", "0", "K">>),
             Val(35), Val(-1), Val("True")),
      CsvRow(Str("LA"), Str("IT"), Str("Tech"), Str("Public"),
             Val(<<"A", LF, "4", ".", "0">>), Str("BA"),
             NaN, NaN, Val(-1), Val("-1")),
      CsvRow(NaN, NaN, NaN, NaN,
             Val(<<"C", LF, "3", LF, "1">>), Str("BA"),
             Val(<<"U", "n", "k", "n", "o", "w", "n">>),
             Val(30), Val(2005), Val("1")),
      CsvRow(Str("LA"), Str("Finance"), Str("Banking"), Str("Private"),
             Val(<<"B">>), Str("Consultant"),
             Val(<<"$", "4", "5", "K", " ", "(", "e", "s", "t", ".", ")">>),
             Val(45), Val(2005), Val("True")) }

\* The headers of the model: every column, or every column but one.
Headers == {AllColumns} \cup {AllColumns \ {c} : c \in AllColumns}

\* A line of a file that has only the columns cols.
Only(row, cols) == [f \in DOMAIN row |-> IF f \in cols THEN row[f] ELSE NaN]

CsvFiles ==
    {[readable |-> TRUE, columns |-> cols,
      rows |-> [k \in 1..Len(rows) |-> Only(rows[k], cols)]] :
        cols \in Headers, rows \in SeqsUpTo(RowPool, MaxRows)}
    \cup {[readable |-> FALSE, columns |-> {}, rows |-> <<>>]}

(***************************************************************************)
(* The script                                                              *)
(***************************************************************************)
Widgets == {"w_location", "w_industry", "w_ownership"}

WidgetColumn(w) ==
    CASE w = "w_location" -> "location"
      [] w = "w_industry" -> "industry"
      [] w = "w_ownership" -> "type_of_ownership"

runVars == <<df, filtered_df, kpi, loc_df, comp_df, title_df, salary_df,
             easy_df, rendered>>

selection == <<location, industry, ownership>>

results == <<kpi, loc_df, comp_df, title_df, salary_df, easy_df>>

fixed == <<csv, tieRule, input, output>>

Running == error = "none"

\* Before the first line of the script has run.
StartOfRun ==
    /\ pc = "load"
    /\ error = "none"
    /\ df = NaN
    /\ filtered_df = NaN
    /\ kpi = NaN
    /\ loc_df = NaN
    /\ comp_df = NaN
    /\ title_df = NaN
    /\ salary_df = NaN
    /\ easy_df = NaN
    /\ rendered = {}

Init ==
    /\ csv \in CsvFiles
    /\ tieRule \in TieRules
    /\ cache = NaN
    /\ reads = 0
    /\ cacheHit = FALSE
    /\ location = {}
    /\ industry = {}
    /\ ownership = {}
    /\ input = NaN
    /\ output = NaN
    /\ StartOfRun

\* df = load_data(), line 16-44
LoadData ==
    /\ pc = "load"
    /\ Running
    /\ IF ~isna(cache)
       THEN /\ cacheHit' = TRUE
            /\ df' = cache
            /\ pc' = "w_location"
            /\ UNCHANGED <<cache, reads, error>>
       ELSE LET r == load_data(csv)
            IN  /\ reads' = reads + 1
                /\ cache' = cache_store(r)
                /\ cacheHit' = FALSE
                /\ df' = r.value
                /\ error' = r.exc
                /\ pc' = IF r.exc = "none" THEN "w_location" ELSE pc
    /\ UNCHANGED <<fixed, selection, filtered_df, results, rendered>>

\* One st.sidebar.multiselect: line 49-52, 54-57, 59-62.  The widget returns
\* the selection the session holds for it.
Multiselect(w, next) ==
    /\ pc = w
    /\ Running
    /\ IF WidgetColumn(w) \in Get(df).columns
       THEN /\ rendered' = rendered \cup {w}
            /\ pc' = next
            /\ error' = error
       ELSE /\ error' = "KeyError"
            /\ UNCHANGED <<rendered, pc>>
    /\ UNCHANGED <<fixed, cache, reads, cacheHit, selection, df, filtered_df,
                   results>>

LocationWidget == Multiselect("w_location", "w_industry")

IndustryWidget == Multiselect("w_industry", "w_ownership")

OwnershipWidget == Multiselect("w_ownership", "filter")

\* line 64-73
FilterRows ==
    /\ pc = "filter"
    /\ Running
    /\ LET after == filter_step(df, location, industry, ownership)
       IN  /\ df' = after.df
           /\ filtered_df' = after.filtered_df
    /\ pc' = "kpis"
    /\ UNCHANGED <<fixed, cache, reads, cacheHit, selection, error, results,
                   rendered>>

\* line 76-81
KPIs ==
    /\ pc = "kpis"
    /\ Running
    /\ LET f == Get(filtered_df)
       IN  IF "rating" \in f.columns
           THEN /\ kpi' = Val([total |-> Len(f.rows),
                               companies |-> nunique(Column(f, "company_name")),
                               locations |-> nunique(Column(f, "location")),
                               avg_rating |->
                                   round2(series_mean(Column(f, "rating")))])
                /\ rendered' = rendered \cup {"total", "companies", "locations",
                                              "avg_rating"}
                /\ pc' = "jobs_by_location"
                /\ error' = error
           ELSE /\ rendered' = rendered \cup {"total", "companies", "locations"}
                /\ error' = "KeyError"
                /\ UNCHANGED <<kpi, pc>>
    /\ UNCHANGED <<fixed, cache, reads, cacheHit, selection, df, filtered_df,
                   loc_df, comp_df, title_df, salary_df, easy_df>>

\* line 86-96
JobsByLocation ==
    /\ pc = "jobs_by_location"
    /\ Running
    /\ loc_df' = Val(value_counts(Column(Get(filtered_df), "location"), tieRule))
    /\ rendered' = rendered \cup {"fig_loc"}
    /\ pc' = "top_companies"
    /\ UNCHANGED <<fixed, cache, reads, cacheHit, selection, df, filtered_df,
                   error, kpi, comp_df, title_df, salary_df, easy_df>>

\* line 101-111
TopCompanies ==
    /\ pc = "top_companies"
    /\ Running
    /\ comp_df' = Val(head(value_counts(Column(Get(filtered_df), "company_name"),
                                        tieRule), TopN))
    /\ rendered' = rendered \cup {"fig_comp"}
    /\ pc' = "job_titles"
    /\ UNCHANGED <<fixed, cache, reads, cacheHit, selection, df, filtered_df,
                   error, kpi, loc_df, title_df, salary_df, easy_df>>

\* line 116-126
JobTitles ==
    /\ pc = "job_titles"
    /\ Running
    /\ IF "job_title" \in Get(filtered_df).columns
       THEN /\ title_df' = Val(head(value_counts(Column(Get(filtered_df),
                                                        "job_title"),
                                                 tieRule), TopN))
            /\ rendered' = rendered \cup {"fig_title"}
            /\ pc' = "industry_sector"
            /\ error' = error
       ELSE /\ error' = "KeyError"
            /\ UNCHANGED <<title_df, rendered, pc>>
    /\ UNCHANGED <<fixed, cache, reads, cacheHit, selection, df, filtered_df,
                   kpi, loc_df, comp_df, salary_df, easy_df>>

\* line 129-145: px.pie raises ValueError for a column the table lacks.
IndustrySector ==
    /\ pc = "industry_sector"
    /\ Running
    /\ IF "sector" \in Get(filtered_df).columns
       THEN /\ rendered' = rendered \cup {"fig_ind", "fig_sec"}
            /\ pc' = "salary"
            /\ error' = error
       ELSE /\ rendered' = rendered \cup {"fig_ind"}
            /\ error' = "ValueError"
            /\ pc' = pc
    /\ UNCHANGED <<fixed, cache, reads, cacheHit, selection, df, filtered_df,
                   results>>

\* line 150-159: the histogram is drawn from salary_df whatever it holds.
SalaryAnalysis ==
    /\ pc = "salary"
    /\ Running
    /\ salary_df' = Val(dropna_avg_salary_k(Get(filtered_df).rows))
    /\ rendered' = rendered \cup {"fig_salary"}
    /\ pc' = "easy_apply"
    /\ UNCHANGED <<fixed, cache, reads, cacheHit, selection, df, filtered_df,
                   error, kpi, loc_df, comp_df, title_df, easy_df>>

\* line 164-174
EasyApply ==
    /\ pc = "easy_apply"
    /\ Running
    /\ easy_df' = Val(value_counts(Column(Get(filtered_df), "easy_apply"),
                                   tieRule))
    /\ rendered' = rendered \cup {"fig_easy"}
    /\ pc' = "done"
    /\ UNCHANGED <<fixed, cache, reads, cacheHit, selection, df, filtered_df,
                   error, kpi, loc_df, comp_df, title_df, salary_df>>

\* The user changes the selection of a multiselect that is on the page.
\* Streamlit then runs the script again from its first line; the session
\* keeps the selections, the cache keeps what load_data returned.
ChangeFilter ==
    /\ pc = "done" \/ ~Running
    /\ \E w \in rendered \cap Widgets :
         \E sel \in SUBSET options(Get(df), WidgetColumn(w)) :
            /\ location' = IF w = "w_location" THEN sel ELSE location
            /\ industry' = IF w = "w_industry" THEN sel ELSE industry
            /\ ownership' = IF w = "w_ownership" THEN sel ELSE ownership
            /\ selection' /= selection
    /\ pc' = "load"
    /\ error' = "none"
    /\ df' = NaN
    /\ filtered_df' = NaN
    /\ kpi' = NaN
    /\ loc_df' = NaN
    /\ comp_df' = NaN
    /\ title_df' = NaN
    /\ salary_df' = NaN
    /\ easy_df' = NaN
    /\ rendered' = {}
    /\ UNCHANGED <<fixed, cache, reads, cacheHit>>

Next ==
    \/ LoadData
    \/ LocationWidget
    \/ IndustryWidget
    \/ OwnershipWidget
    \/ FilterRows
    \/ KPIs
    \/ JobsByLocation
    \/ TopCompanies
    \/ JobTitles
    \/ IndustrySector
    \/ SalaryAnalysis
    \/ EasyApply
    \/ ChangeFilter

Spec == Init /\ [][Next]_vars

(***************************************************************************)
(* One run of the script on a file with more labels than a top-N table     *)
(* holds.  Every line has its own company and its own job title, up to     *)
(* MaxTwice of them occur a second time; the lines come in ascending or in *)
(* descending order of the company.                                        *)
(***************************************************************************)
CompanyNames ==
    <<"A", "B", "C", "D", "E", "F", "G", "H", "I", "J", "K", "L", "M", "N">>

TitleNames ==
    <<"Accountant", "Analyst", "Architect", "Auditor", "Buyer", "Clerk",
      "Consultant", "Controller", "Designer", "Developer", "Engineer",
      "Manager", "Planner", "Tester">>

\* Company k goes with title NumLabels + 1 - k, so that the two columns do
\* not sort alike.
LabelRow(k) ==
    CsvRow(NaN, NaN, NaN, NaN, Val(<<CompanyNames[k]>>),
           Str(TitleNames[NumLabels + 1 - k]), NaN, NaN, Val(-1), Val("-1"))

Ascending(n) == [k \in 1..n |-> LabelRow(k)]

Reverse(s) == [k \in 1..Len(s) |-> s[Len(s) + 1 - k]]

\* The lines 1..n and a second line for every label of `twice`.
RECURSIVE SecondLines(_)
SecondLines(twice) ==
    IF twice = {} THEN <<>>
    ELSE LET k == CHOOSE k \in twice : \A j \in twice : k <= j
         IN  <<LabelRow(k)>> \o SecondLines(twice \ {k})

LabelFiles ==
    {[readable |-> TRUE, columns |-> AllColumns, rows |-> rows] :
        rows \in UNION {
            {Ascending(n) \o SecondLines(twice),
             Reverse(Ascending(n) \o SecondLines(twice))} :
                n \in (TopN - 1)..NumLabels,
                twice \in {t \in SUBSET (1..NumLabels) :
                             Cardinality(t) <= MaxTwice}}}

InitTop ==
    /\ csv \in LabelFiles
    /\ tieRule \in TieRules
    /\ cache = NaN
    /\ reads = 0
    /\ cacheHit = FALSE
    /\ location = {}
    /\ industry = {}
    /\ ownership = {}
    /\ input = NaN
    /\ output = NaN
    /\ StartOfRun

NextTop ==
    \/ LoadData
    \/ LocationWidget
    \/ IndustryWidget
    \/ OwnershipWidget
    \/ FilterRows
    \/ KPIs
    \/ JobsByLocation
    \/ TopCompanies
    \/ JobTitles
    \/ IndustrySector
    \/ SalaryAnalysis
    \/ EasyApply

SpecTop == InitTop /\ [][NextTop]_vars

(***************************************************************************)
(* parse_salary and the cleaning of company_name applied on their own      *)
(***************************************************************************)
SalaryAlphabet == {"0", "4", "5", "$", "K", "-"}

RangeEstimate == <<"$", "4", "0", "K", "-", "$", "6", "0", "K">>

EmployerEstimate ==
    <<"$", "4", "5", "K", " ", "(", "E", "m", "p", "l", "o", "y", "e", "r",
      " ", "e", "s", "t", ".", ")">>

NoEstimate == <<"U", "n", "k", "n", "o", "w", "n">>

SalaryExamples == {RangeEstimate, EmployerEstimate, NoEstimate}

SalaryInputs ==
    {NaN} \cup {Val(s) : s \in SeqsUpTo(SalaryAlphabet, MaxSalaryLen)
                             \cup SalaryExamples}

CR == "\r"

NameAlphabet == {"A", "3", LF, CR}

NameExamples ==
    { <<"A", "c", "m", "e", " ", "C", "o", "r", "p", LF, "3", ".", "5">>,
      <<"B", "e", "t", "a", " ", "L", "L", "C">> }

NameInputs ==
    {NaN} \cup {Val(s) : s \in SeqsUpTo(NameAlphabet, MaxNameLen)
                             \cup NameExamples}

NoFile == [readable |-> FALSE, columns |-> {}, rows |-> <<>>]

\* No script is running; a function is about to be called on `input`.
InitCall(inputs) ==
    /\ csv = NoFile
    /\ tieRule = "first_seen"
    /\ cache = NaN
    /\ reads = 0
    /\ cacheHit = FALSE
    /\ location = {}
    /\ industry = {}
    /\ ownership = {}
    /\ error = "none"
    /\ df = NaN
    /\ filtered_df = NaN
    /\ kpi = NaN
    /\ loc_df = NaN
    /\ comp_df = NaN
    /\ title_df = NaN
    /\ salary_df = NaN
    /\ easy_df = NaN
    /\ rendered = {}
    /\ pc = "call"
    /\ input \in inputs
    /\ output = NaN

\* df["salary_estimate"].apply(parse_salary), line 40, on one value
ApplyParseSalary ==
    /\ pc = "call"
    /\ output' = parse_salary(input)
    /\ pc' = "return"
    /\ UNCHANGED <<pipelineVars, input>>

\* df["company_name"].str.replace(...), line 24, on one value
ApplyStrReplace ==
    /\ pc = "call"
    /\ output' = str_replace(input)
    /\ pc' = "return"
    /\ UNCHANGED <<pipelineVars, input>>

InitSalary == InitCall(SalaryInputs)

NextSalary == ApplyParseSalary

SpecSalary == InitSalary /\ [][NextSalary]_vars

InitCompany == InitCall(NameInputs)

NextCompany == ApplyStrReplace

SpecCompany == InitCompany /\ [][NextCompany]_vars

(***************************************************************************)
(* Properties                                                              *)
(***************************************************************************)
Min(S) == CHOOSE x \in S : \A y \in S : x <= y

\* The k-th smallest element of a set of numbers.
Kth(S, k) == CHOOSE x \in S : Cardinality({y \in S : y < x}) = k - 1

\* sub holds exactly the elements of s at the places idx, in their order.
IsSelection(sub, s, idx) ==
    /\ Len(sub) = Cardinality(idx)
    /\ \A k \in 1..Len(sub) : sub[k] = s[Kth(idx, k)]

\* A facet with a selection admits the rows whose value is selected; a
\* facet without one admits every row.
Admits(cell, sel) == sel = {} \/ (cell /= NaN /\ cell[1] \in sel)

KeptRows(t, loc, ind, own) ==
    {k \in 1..Len(t.rows) :
        /\ Admits(t.rows[k].location, loc)
        /\ Admits(t.rows[k].industry, ind)
        /\ Admits(t.rows[k].type_of_ownership, own)}

\* C1: the filtered table holds exactly the rows of the canonical table, fields
\* unchanged and in their order, that every facet with a non-empty selection
\* admits (location, industry, type_of_ownership, combined with AND); with
\* no selection at all it equals the canonical table.
C1_FilterIsExactSelection ==
    ~isna(filtered_df) =>
        /\ Get(filtered_df).columns = Get(df).columns
        /\ IsSelection(Get(filtered_df).rows, Get(df).rows,
                       KeptRows(Get(df), location, industry, ownership))
        /\ (location = {} /\ industry = {} /\ ownership = {}
              => filtered_df = df)

\* Two facets are selected, a row passes one of them and fails the other,
\* and the filter keeps some rows and drops some.
C1_Witness ==
    /\ pc = "done"
    /\ location /= {}
    /\ ownership /= {}
    /\ Get(filtered_df).rows /= <<>>
    /\ Len(Get(filtered_df).rows) < Len(Get(df).rows)
    /\ \E k \in 1..Len(Get(df).rows) :
          /\ Admits(Get(df).rows[k].location, location)
          /\ ~Admits(Get(df).rows[k].type_of_ownership, ownership)

\* The maximal runs of digits of s, each named by its first place.
RunStarts(s) ==
    {i \in 1..Len(s) : s[i] \in Digits /\ (i = 1 \/ s[i - 1] \notin Digits)}

RunLast(s, i) ==
    CHOOSE j \in i..Len(s) :
        /\ \A k \in i..j : s[k] \in Digits
        /\ j = Len(s) \/ s[j + 1] \notin Digits

RECURSIVE Pow10(_)
Pow10(n) == IF n = 0 THEN 1 ELSE 10 * Pow10(n - 1)

RECURSIVE DecimalValue(_, _, _)
DecimalValue(s, i, j) ==
    IF i > j THEN 0
    ELSE DigitVal(s[i]) * Pow10(j - i) + DecimalValue(s, i + 1, j)

RECURSIVE SumOfRuns(_, _)
SumOfRuns(s, starts) ==
    IF starts = {} THEN 0
    ELSE LET i == Min(starts)
         IN  DecimalValue(s, i, RunLast(s, i)) + SumOfRuns(s, starts \ {i})

\* C2: parse_salary returns absent when the input is absent or holds no
\* digit, and otherwise the arithmetic mean of the integers written by the
\* maximal runs of digits of the string; "$40K-$60K" gives 50, "$45K
\* (Employer est.)" gives 45, "Unknown" gives absent.
C2_ParseSalaryIsMeanOfRuns ==
    pc = "return" =>
        /\ IF input = NaN \/ RunStarts(input[1]) = {}
           THEN output = NaN
           ELSE /\ output /= NaN
                /\ output[1].den > 0
                /\ output[1].num * Cardinality(RunStarts(input[1]))
                     = SumOfRuns(input[1], RunStarts(input[1])) * output[1].den
        /\ (input = Val(RangeEstimate) => output = Val([num |-> 50, den |-> 1]))
        /\ (input = Val(EmployerEstimate)
              => output = Val([num |-> 45, den |-> 1]))
        /\ (input = Val(NoEstimate) => output = NaN)

\* A string with two runs of digits, one of them of two digits, has been
\* parsed to a mean that is no integer.
C2_Witness ==
    /\ pc = "return"
    /\ input = Val(<<"4", "0", "-", "5">>)
    /\ output = Val([num |-> 45, den |-> 2])

\* C3: the cleaned company_name is the part of the source value before its
\* first newline, holds no newline whatever the number of newlines in the
\* source, and equals the source value when that holds no newline.
C3_CompanyNameIsFirstLine ==
    pc = "return" /\ input /= NaN =>
        LET s == input[1]
            breaks == {i \in 1..Len(s) : s[i] = LF}
        IN  /\ output /= NaN
            /\ output[1] = IF breaks = {} THEN s
                           ELSE SubSeq(s, 1, Min(breaks) - 1)
            /\ \A k \in 1..Len(output[1]) : output[1][k] /= LF
            /\ (breaks = {} => output = input)

\* A name with two newlines, text after each, has been cut at the first.
C3_Witness ==
    /\ pc = "return"
    /\ input = Val(<<"A", LF, "3", LF, "3">>)
    /\ output = Val(<<"A">>)

\* C4: after the load of a file that has every column, every row's
\* easy_apply is a boolean (the sentinel -1 has become false, every other
\* source value has been coerced), and the easy-apply breakdown has no group
\* other than true and false.
C4_EasyApplyIsBoolean ==
    /\ ~isna(df) /\ csv.columns = AllColumns =>
          \A k \in 1..Len(Get(df).rows) :
              Get(df).rows[k].easy_apply[1].t = "bool"
    /\ ~isna(easy_df) =>
          \A k \in 1..Len(Get(easy_df)) : Get(easy_df)[k].label.t = "bool"

\* The place of a label in the ascending order of the labels.
RECURSIVE IndexOf(_, _, _)
IndexOf(names, x, k) ==
    IF k > Len(names) THEN 0
    ELSE IF names[k] = x THEN k ELSE IndexOf(names, x, k + 1)

CompanyRank(label) == IndexOf(CompanyNames, label[1], 1)

TitleRank(label) == IndexOf(TitleNames, label, 1)

\* The labels of a column and the number of rows of each.
LabelsOf(cells) == {c[1] : c \in {x \in Range(cells) : x /= NaN}}

RowsOf(cells, label) ==
    Cardinality({k \in 1..Len(cells) : cells[k] = <<label>>})

\* top is a top-N table of the column: at most N pairs, as many as there are
\* labels up to N, no label twice, every count the number of rows of its
\* label, counts descending, and no label left out with a higher count than
\* a label included.
IsTopByCount(top, cells) ==
    /\ Len(top) <= TopN
    /\ Len(top) = IF Cardinality(LabelsOf(cells)) < TopN
                  THEN Cardinality(LabelsOf(cells)) ELSE TopN
    /\ \A k \in 1..Len(top) :
          /\ top[k].label \in LabelsOf(cells)
          /\ top[k].count = RowsOf(cells, top[k].label)
    /\ \A k, m \in 1..Len(top) :
          k < m => top[k].label /= top[m].label /\ top[k].count >= top[m].count
    /\ \A x \in LabelsOf(cells) \ {top[k].label : k \in 1..Len(top)} :
          \A k \in 1..Len(top) : RowsOf(cells, x) <= top[k].count

\* Equal counts are ordered by label ascending, in the table and at its
\* cut-off.
TiesByLabel(top, cells, Rank(_)) ==
    /\ \A k, m \in 1..Len(top) :
          k < m /\ top[k].count = top[m].count
              => Rank(top[k].label) < Rank(top[m].label)
    /\ \A x \in LabelsOf(cells) \ {top[k].label : k \in 1..Len(top)} :
          \A k \in 1..Len(top) :
              RowsOf(cells, x) = top[k].count => Rank(top[k].label) < Rank(x)

\* C5 as stated: the top-companies and the top-job-titles tables hold at
\* most 10 (label, count) pairs with the right counts, ordered by count
\* descending and, for equal counts, by label ascending, also at the cut-off
\* (so that the order of the rows of the table does not matter).  Stated for
\* the builds whose sort is stable, which is the least the claim covers.
C5_TopTablesTieByLabel ==
    tieRule = "first_seen" =>
    /\ ~isna(comp_df) =>
          /\ IsTopByCount(Get(comp_df), Column(Get(filtered_df), "company_name"))
          /\ TiesByLabel(Get(comp_df), Column(Get(filtered_df), "company_name"),
                         CompanyRank)
    /\ ~isna(title_df) =>
          /\ IsTopByCount(Get(title_df), Column(Get(filtered_df), "job_title"))
          /\ TiesByLabel(Get(title_df), Column(Get(filtered_df), "job_title"),
                         TitleRank)

\* C5 as amended: the top-companies and the top-job-titles tables hold at
\* most 10 (label, count) pairs with the right counts, ordered by count
\* descending, and no label left out has a higher count than a label
\* included; the order of labels of equal count is not fixed by the label.
C5_TopTablesByCount ==
    /\ ~isna(comp_df) =>
          IsTopByCount(Get(comp_df), Column(Get(filtered_df), "company_name"))
    /\ ~isna(title_df) =>
          IsTopByCount(Get(title_df), Column(Get(filtered_df), "job_title"))

\* More than 10 companies, one of them with two rows and at the head of the
\* table, and a company left out that has as many rows as the last one
\* included.
C5_Witness ==
    /\ pc = "done"
    /\ Cardinality(LabelsOf(Column(Get(filtered_df), "company_name"))) > TopN
    /\ Len(Get(comp_df)) = TopN
    /\ Len(Get(title_df)) = TopN
    /\ Get(comp_df)[1].count = 2
    /\ Get(comp_df)[TopN].count = 1

\* C6: when the criteria exclude every row, the four metrics are total 0,
\* companies 0, locations 0 and an absent (not zero) mean rating, every
\* aggregation table is empty, and on a file that has every column no step
\* raises.
C6_EmptySelectionDegrades ==
    ~isna(filtered_df) /\ Get(filtered_df).rows = <<>> =>
        /\ ~isna(kpi) => Get(kpi) = [total |-> 0, companies |-> 0,
                                     locations |-> 0, avg_rating |-> NaN]
        /\ ~isna(loc_df) => Get(loc_df) = <<>>
        /\ ~isna(comp_df) => Get(comp_df) = <<>>
        /\ ~isna(title_df) => Get(title_df) = <<>>
        /\ ~isna(easy_df) => Get(easy_df) = <<>>
        /\ csv.columns = AllColumns => error = "none"

\* A run is over on a table with rows, none of which the criteria admit.
C6_Witness ==
    /\ pc = "done"
    /\ Get(df).rows /= <<>>
    /\ Get(filtered_df).rows = <<>>
    /\ location /= {}
    /\ industry /= {}
    /\ Get(kpi).total = 0
    /\ Get(kpi).avg_rating = NaN

\* The steps of the script in their order.
Steps ==
    <<"load", "w_location", "w_industry", "w_ownership", "filter", "kpis",
      "jobs_by_location", "top_companies", "job_titles", "industry_sector",
      "salary", "easy_apply", "done">>

StepNo(step) == IndexOf(Steps, step, 1)

RequiredColumns ==
    {"location", "company_name", "job_title", "salary_estimate", "rating",
     "industry", "sector", "type_of_ownership"}

\* The columns whose lack stops load_data, and for each other column the
\* step that first uses it.
NeededByLoad == {"company_name", "founded", "easy_apply", "salary_estimate"}

FirstUse(column) ==
    CASE column = "location" -> "w_location"
      [] column = "industry" -> "w_industry"
      [] column = "type_of_ownership" -> "w_ownership"
      [] column = "rating" -> "kpis"
      [] column = "job_title" -> "job_titles"
      [] column = "sector" -> "industry_sector"

\* C7 as stated: when the file cannot be read or lacks a required column,
\* load fails, no canonical table is produced and no filter or aggregation
\* step runs.
C7_LoadRejectsBadInput ==
    ~csv.readable \/ ~(RequiredColumns \subseteq csv.columns) =>
        /\ isna(df)
        /\ isna(cache)
        /\ isna(filtered_df)
        /\ reads > 0 => error /= "none"

\* C7 as amended: load fails (FileNotFoundError or KeyError) and produces no
\* table exactly when the file cannot be read or lacks company_name,
\* founded, easy_apply or salary_estimate.  A file that lacks location,
\* industry, type_of_ownership, rating, job_title or sector is loaded and
\* cached; the run stops (KeyError, for sector ValueError) at the step that
\* first uses the column and no later step runs; for rating, job_title and
\* sector that is after the filter.
C7_MissingColumnStopsAtFirstUse ==
    /\ reads > 0 /\ (~csv.readable \/ ~(NeededByLoad \subseteq csv.columns)) =>
          /\ error = IF csv.readable THEN "KeyError" ELSE "FileNotFoundError"
          /\ pc = "load"
          /\ isna(df) /\ isna(cache) /\ isna(filtered_df)
          /\ rendered = {}
    /\ reads > 0 /\ csv.readable /\ NeededByLoad \subseteq csv.columns =>
          /\ ~isna(cache)
          /\ pc = "load" \/ ~isna(df)
    /\ csv.readable =>
        \A c \in AllColumns \ (NeededByLoad \cup csv.columns) :
          /\ StepNo(pc) <= StepNo(FirstUse(c))
          /\ error /= "none" =>
                /\ pc = FirstUse(c)
                /\ error = IF c = "sector" THEN "ValueError" ELSE "KeyError"
          /\ c \in {"rating", "job_title", "sector"} /\ error /= "none" =>
                ~isna(filtered_df)
    /\ csv.readable /\ csv.columns = AllColumns => error = "none"

\* A file without job_title has been loaded, filtered and partly aggregated,
\* and the run has stopped at the job-title table.
C7_Witness ==
    /\ "job_title" \notin csv.columns
    /\ pc = "job_titles"
    /\ error = "KeyError"
    /\ ~isna(cache)
    /\ ~isna(filtered_df)
    /\ ~isna(comp_df)
    /\ Get(df).rows /= <<>>

\* C8: through every succession of selections the canonical table of the run
\* is the table load produced and stored, the stored table never changes,
\* and the filtered table is the selection the current criteria make from
\* it, whatever was selected before.
C8_CanonicalTableIsImmutable ==
    /\ [](~isna(df) => df = cache)
    /\ [](~isna(filtered_df) =>
            /\ Get(filtered_df).columns = Get(cache).columns
            /\ IsSelection(Get(filtered_df).rows, Get(cache).rows,
                           KeptRows(Get(cache), location, industry, ownership)))
    /\ [][~isna(cache) => cache' = cache]_vars

\* A later run, after other selections, has filtered rows away and the
\* canonical table still has them all.
C8_Witness ==
    /\ cacheHit
    /\ pc = "done"
    /\ location /= {}
    /\ df = cache
    /\ Len(Get(filtered_df).rows) < Len(Get(df).rows)
    /\ Len(Get(df).rows) = Len(csv.rows)

\* C9: the body of load_data (the read and the cleaning) runs once: the
\* first call runs it and every later call returns the stored table, which
\* is the first call's result, without another read.
C9_LoadRunsOnce ==
    /\ [](reads <= 1)
    /\ [](cacheHit => reads = 1 /\ ~isna(cache) /\ (pc /= "load" => df = cache))
    /\ [][~isna(cache) => reads' = reads /\ cache' = cache]_vars
    /\ [][pc = "load" /\ pc' /= "load" /\ ~isna(cache) => cacheHit']_vars

\* A later run has loaded from the cache and run to its end.
C9_Witness ==
    /\ cacheHit
    /\ reads = 1
    /\ pc = "done"
    /\ df = cache
    /\ Get(df).rows /= <<>>

\* The rows of the filtered table whose avg_salary_k is present.
WithSalary(t) == {k \in 1..Len(t.rows) : t.rows[k].avg_salary_k /= NaN}

\* C10 as stated: the histogram input is exactly the rows of the filtered
\* table whose avg_salary_k is present, and when there is none the run
\* signals "no salary data" and draws no chart.
C10_NoSalaryDataIsSignalled ==
    ~isna(salary_df) =>
        /\ IsSelection(Get(salary_df), Get(filtered_df).rows,
                       WithSalary(Get(filtered_df)))
        /\ Get(salary_df) = <<>> =>
              "no_salary_data" \in rendered /\ "fig_salary" \notin rendered

\* C10 as amended: the histogram input is exactly the rows of the filtered
\* table whose avg_salary_k is present, and the histogram is drawn from it
\* also when it is empty; nothing signals "no salary data".
C10_HistogramInputIsPresentSalaries ==
    ~isna(salary_df) =>
        /\ IsSelection(Get(salary_df), Get(filtered_df).rows,
                       WithSalary(Get(filtered_df)))
        /\ \A k \in 1..Len(Get(salary_df)) : Get(salary_df)[k].avg_salary_k /= NaN
        /\ "fig_salary" \in rendered
        /\ "no_salary_data" \notin rendered
        /\ error = "none"

\* The filtered table has rows, none with a salary, and the histogram has
\* been drawn.
C10_Witness ==
    /\ pc = "done"
    /\ Get(filtered_df).rows /= <<>>
    /\ Get(salary_df) = <<>>
    /\ "fig_salary" \in rendered

====
